---- MODULE Spec2Model ----
(***************************************************************************)
(* The lifecycle broadcaster of the tank (src/tank-decay.js, tankDecay):   *)
(* a two-state timed state machine (preservation / flicker) that fans out  *)
(* (stage, progress) to its subscribers.                                   *)
(*                                                                         *)
(* Time.  The code stores absolute timestamps (Date.now()) and only ever   *)
(* reads them as differences Date.now() - stamp.  The model keeps those    *)
(* differences: timeSinceInteraction is Date.now() - this.lastInteraction  *)
(* and flickerElapsed is Date.now() - this.flickerStartTime, in ms.  Both  *)
(* saturate one step above the largest value the code distinguishes.  The  *)
(* clock is taken to be monotonic.  A live interval carries the time left  *)
(* until it fires; time cannot pass a due interval (timers fire on time    *)
(* unless they are stopped).                                               *)
(*                                                                         *)
(* Progress is a rational in lowest terms <<numerator, denominator>>.      *)
(*                                                                         *)
(* The page.  The scanning beam's collision poll (src/tank-beam.js) and    *)
(* the contact poll of the audio bridge (src/unnamed/part_000) read the    *)
(* bounding rectangles of the page's elements and the beam's position;     *)
(* these change between polls as the page scrolls and the beam sweeps.     *)
(* Each component has its own specification over the shared variables:     *)
(* Spec, SpecNoOverride, SpecRunning and SpecShipped drive the             *)
(* broadcaster, SpecNoConfig drives it without the configuration table,    *)
(* SpecSurge with the audio callback subscribed; SpecBeam drives the       *)
(* collision poll, SpecAudio and SpecSharedKey the contact poll,           *)
(* SpecBothPolls the two polls over one page.                              *)
(*                                                                         *)
(* The specimen registry (src/tank-specimens.js, SPECIMENS) is a table     *)
(* with pure lookups; SpecSpecimens calls them for every id.               *)
(***************************************************************************)
EXTENDS Integers, Sequences, FiniteSets, TLC

\* ---------------------------------------------------------------- bounds

\* TANK_CONFIG.timings.preservation of the configuration table under check,
\* in tick periods (the shipped table sets 300000 ms, 3000 tick periods).
CfgPreservationTicks == 2

\* TANK_CONFIG.timings.flicker of the configuration table under check, in
\* tick periods (the shipped table sets 10000 ms, 100 tick periods).
CfgFlickerTicks == 2

\* Most subscribers registered at a time.
MaxListeners == 2

\* Most intervals alive at a time (setInterval calls not yet cleared).
MaxIntervals == 4

\* ------------------------------------------------------- program constants

\* setInterval(() => this.update(), 100)
TickPeriod == 100

\* flickerElapsed / 1000
FlickerDuration == 1000

\* A timer field holding null (interval ids are positive, hence truthy).
NULL == 0

\* Subscribers: "beam" returns normally, "faulty" throws whenever invoked.
Callbacks == {"beam", "faulty"}
Throwing == {"faulty"}

\* Calls tried for the debug override setStage(stage, progress = 0):
\* setStage('decay') and setStage('flicker', 1.5).
SetStageArgs == {<<"decay", <<0, 1>>>>, <<"flicker", <<3, 2>>>>}

\* Amounts of time that pass between two events.
Steps == {TickPeriod}

VARIABLES
    TANK_CONFIG,           \* the configuration table (present = FALSE: not loaded)
    stage,                 \* this.stage
    progress,              \* this.progress
    timeSinceInteraction,  \* Date.now() - this.lastInteraction
    timer,                 \* this.timer: NULL or an interval id
    listeners,             \* this.listeners
    flickerTimer,          \* this.flickerTimer: NULL or an interval id
    isFlickering,          \* this.isFlickering
    flickerElapsed,        \* Date.now() - this.flickerStartTime
    intervals,             \* the intervals alive in the event loop
    lastOp,                \* the handler that ran last
    pass,                  \* the notification pass of the handler that ran last
    escaped,               \* the handler that ran last ended by an uncaught exception
    undisturbed,           \* since the last update(): no start, reset, setStage, destroy
    sincePause             \* what pause() found, while only time and resume() followed

\* The scanning beam (src/tank-beam.js, TankBeam) and the contact poll of the
\* audio bridge (src/unnamed/part_000), over one page geometry.
VARIABLES
    beamBody,              \* document.getElementById('beamBody') finds the beam
    isMobile,              \* window.innerWidth < 768 when the beam poll was set up
    scanY,                 \* beamRect.top + beamRect.height / 2
    rects,                 \* getBoundingClientRect() of each element: top, height
    classList,             \* the marker classes on each element
    glow,                  \* the classes of this.glow
    hotspot,               \* the classes of this.hotspot
    isPaused,              \* TankBeam.isPaused
    lastUIContact,         \* the audio poll's lastUIContact
    sinceTextContact,      \* Date.now() - (lastTextContact.get(key) || 0), per key
    audioDue,              \* the audio poll's interval is due
    triggers,              \* the discrete triggers of the audio poll that ran last
    streak,                \* per text: in contact at the last 0, 1, 2 or more audio polls
    hold                   \* a contact being timed: how long, how many triggers

decayVars == <<TANK_CONFIG, stage, progress, timeSinceInteraction, timer, listeners,
               flickerTimer, isFlickering, flickerElapsed, intervals, pass,
               escaped, undisturbed, sincePause>>

pollVars == <<beamBody, isMobile, scanY, rects, classList, glow, hotspot, isPaused,
              lastUIContact, sinceTextContact, audioDue, triggers, streak, hold>>

\* The specimen registry (src/tank-specimens.js, SPECIMENS) and its two
\* lookups.
VARIABLES
    registry,              \* SPECIMENS.registry
    popup,                 \* the last call of getPopupContent: its id and result
    membrane               \* the last call of getMembraneData: its id and result

specimenVars == <<registry, popup, membrane>>

vars == <<decayVars, lastOp, pollVars, specimenVars>>

\* -------------------------------------------------------------- rationals

Min(a, b) == IF a <= b THEN a ELSE b

RECURSIVE GCD(_, _)
GCD(a, b) == IF b = 0 THEN a ELSE GCD(b, a % b)

\* n / d in lowest terms (d > 0, n >= 0).
Ratio(n, d) == LET g == GCD(n, d) IN <<n \div g, d \div g>>

Zero == <<0, 1>>
One == <<1, 1>>

Leq(p, q) == p[1] * q[2] <= q[1] * p[2]
Less(p, q) == p[1] * q[2] < q[1] * p[2]

\* Math.min(elapsed / duration, 1.0)
MinRatioOne(elapsed, duration) == Ratio(Min(elapsed, duration), duration)

\* ------------------------------------------------------------ the object

\* The fields of tankDecay that the handlers below read and write.
Self == [stage |-> stage,
         progress |-> progress,
         timeSinceInteraction |-> timeSinceInteraction,
         isFlickering |-> isFlickering,
         flickerElapsed |-> flickerElapsed]

\* What a handler leaves behind: the fields, whether it reached this.notify(),
\* and whether it ended by an uncaught exception.
Done(self, notified) == [self |-> self, notify |-> notified, threw |-> FALSE]
Thrown(self) == [self |-> self, notify |-> FALSE, threw |-> TRUE]

\* ----------------------------------------------------------------- notify

\* callback(this.stage, this.progress) for one listener.
Call(cb, st, pr) ==
    [callback |-> cb, stage |-> st, progress |-> pr, threw |-> cb \in Throwing]

\* A forEach without the try/catch: the first throw ends the pass and leaves it.
RECURSIVE ForEachNoCatch(_, _, _, _)
ForEachNoCatch(ls, i, st, pr) ==
    IF i > Len(ls) THEN [calls |-> <<>>, escaped |-> FALSE]
    ELSE IF ls[i] \in Throwing
         THEN [calls |-> <<Call(ls[i], st, pr)>>, escaped |-> TRUE]
         ELSE LET rest == ForEachNoCatch(ls, i + 1, st, pr)
              IN  [calls |-> <<Call(ls[i], st, pr)>> \o rest.calls,
                   escaped |-> rest.escaped]

NotifyNoCatch(ls, st, pr) == ForEachNoCatch(ls, 1, st, pr)

\* A pass that walks the listeners from the last registered to the first.
NotifyReversed(ls, st, pr) ==
    [calls |-> [i \in 1..Len(ls) |-> Call(ls[Len(ls) + 1 - i], st, pr)],
     escaped |-> FALSE]

\* this.listeners.forEach(callback => { try { callback(...) } catch { log } })
\* from listener i on: the call is made, a throw is caught, the walk goes on.
RECURSIVE ForEach(_, _, _, _)
ForEach(ls, i, st, pr) ==
    IF i > Len(ls) THEN [calls |-> <<>>, escaped |-> FALSE]
    ELSE LET rest == ForEach(ls, i + 1, st, pr)
         IN  [calls |-> <<Call(ls[i], st, pr)>> \o rest.calls,
              escaped |-> rest.escaped]

\* notify(): the calls made, in order, and whether an exception left the pass.
Notify(ls, st, pr) == ForEach(ls, 1, st, pr)

NoPass == [ran |-> FALSE, calls |-> <<>>]

\* --------------------------------------------------------------- handlers

\* A reset() that ends the flicker without telling the listeners.
resetSilent(self) ==
    LET s1 == [self EXCEPT !.timeSinceInteraction = 0]
    IN  IF s1.isFlickering
        THEN Done([s1 EXCEPT !.isFlickering = FALSE,
                             !.stage = "preservation",
                             !.progress = Zero], FALSE)
        ELSE Done(s1, FALSE)

\* A reset() that ends the flicker but leaves the flag isFlickering set.
resetKeepsFlag(self) ==
    LET s1 == [self EXCEPT !.timeSinceInteraction = 0]
    IN  IF s1.isFlickering
        THEN Done([s1 EXCEPT !.stage = "preservation",
                             !.progress = Zero], TRUE)
        ELSE Done(s1, FALSE)

\* reset()
reset(self) ==
    LET s1 == [self EXCEPT !.timeSinceInteraction = 0]
    IN  IF s1.isFlickering
        THEN Done([s1 EXCEPT !.isFlickering = FALSE,
                             !.stage = "preservation",
                             !.progress = Zero], TRUE)
        ELSE Done(s1, FALSE)

\* A flicker branch that ends the flicker at half its duration.
updateFlickerEarly(self) ==
    LET p == MinRatioOne(self.flickerElapsed, FlickerDuration)
    IN  IF Leq(<<1, 2>>, p)
        THEN Done([self EXCEPT !.isFlickering = FALSE,
                               !.stage = "preservation",
                               !.progress = Zero], TRUE)
        ELSE Done([self EXCEPT !.progress = p], TRUE)

\* A flicker branch that reports the time left instead of the time elapsed.
updateFlickerCountdown(self) ==
    LET p == MinRatioOne(self.flickerElapsed, FlickerDuration)
    IN  IF Leq(One, p)
        THEN Done([self EXCEPT !.isFlickering = FALSE,
                               !.stage = "preservation",
                               !.progress = Zero], TRUE)
        ELSE Done([self EXCEPT !.progress =
                       Ratio(FlickerDuration - self.flickerElapsed, FlickerDuration)],
                  TRUE)

\* A flicker branch that clamps the progress at 1 and never ends the flicker.
updateFlickerStuck(self) ==
    Done([self EXCEPT !.progress = MinRatioOne(self.flickerElapsed, FlickerDuration)],
         TRUE)

\* update(), the branch taken while this.isFlickering
updateFlicker(self) ==
    LET p == MinRatioOne(self.flickerElapsed, FlickerDuration)
    IN  IF Leq(One, p)
        THEN Done([self EXCEPT !.isFlickering = FALSE,
                               !.stage = "preservation",
                               !.progress = Zero], TRUE)
        ELSE Done([self EXCEPT !.progress = p], TRUE)

\* A preservation branch that restarts the cycle on progress > 1.0, which the
\* clamped progress never is.
updatePreservationStrict(self, cfg) ==
    LET s1 == [self EXCEPT !.stage = "preservation"]
    IN  IF ~cfg.present
        THEN Thrown(s1)
        ELSE LET p == MinRatioOne(s1.timeSinceInteraction, cfg.timings.preservation)
             IN  IF Less(One, p)
                 THEN Done([s1 EXCEPT !.timeSinceInteraction = 0,
                                      !.progress = Zero], TRUE)
                 ELSE Done([s1 EXCEPT !.progress = p], TRUE)

\* A preservation branch that neither clamps the progress nor restarts the cycle.
updatePreservationUnclamped(self, cfg) ==
    LET s1 == [self EXCEPT !.stage = "preservation"]
    IN  IF ~cfg.present
        THEN Thrown(s1)
        ELSE Done([s1 EXCEPT !.progress =
                       Ratio(s1.timeSinceInteraction, cfg.timings.preservation)],
                  TRUE)

\* A preservation branch that measures the time since the last flicker began.
updatePreservationSinceFlicker(self, cfg) ==
    LET s1 == [self EXCEPT !.stage = "preservation"]
    IN  IF ~cfg.present
        THEN Thrown(s1)
        ELSE LET p == MinRatioOne(s1.flickerElapsed, cfg.timings.preservation)
             IN  IF Leq(One, p)
                 THEN Done([s1 EXCEPT !.timeSinceInteraction = 0,
                                      !.progress = Zero], TRUE)
                 ELSE Done([s1 EXCEPT !.progress = p], TRUE)

\* update(), the preservation branch
updatePreservation(self, cfg) ==
    LET s1 == [self EXCEPT !.stage = "preservation"]
    IN  IF ~cfg.present
        THEN Thrown(s1)
        ELSE LET p == MinRatioOne(s1.timeSinceInteraction, cfg.timings.preservation)
             IN  IF Leq(One, p)
                 THEN Done([s1 EXCEPT !.timeSinceInteraction = 0,
                                      !.progress = Zero], TRUE)
                 ELSE Done([s1 EXCEPT !.progress = p], TRUE)

\* update()
update(self, cfg) ==
    IF self.isFlickering THEN updateFlicker(self) ELSE updatePreservation(self, cfg)

\* A triggerFlicker() that names the stage 'flickering'.
triggerFlickerMisnamed(self) ==
    IF self.isFlickering
    THEN Done(self, FALSE)
    ELSE Done([self EXCEPT !.isFlickering = TRUE,
                           !.flickerElapsed = 0,
                           !.stage = "flickering",
                           !.progress = Zero], TRUE)

\* A triggerFlicker() without the guard: a trigger during a flicker restarts it.
triggerFlickerUnguarded(self) ==
    Done([self EXCEPT !.isFlickering = TRUE,
                      !.flickerElapsed = 0,
                      !.stage = "flicker",
                      !.progress = Zero], TRUE)

\* triggerFlicker()
triggerFlicker(self) ==
    IF self.isFlickering
    THEN Done(self, FALSE)
    ELSE Done([self EXCEPT !.isFlickering = TRUE,
                           !.flickerElapsed = 0,
                           !.stage = "flicker",
                           !.progress = Zero], TRUE)

\* setStage(stage, progress = 0)
setStage(self, st, pr) ==
    Done([self EXCEPT !.stage = st, !.progress = pr], TRUE)

\* ------------------------------------------------------------ event loop

Ids == 1..MaxIntervals

FreeIds(ivs) == Ids \ {iv.id : iv \in ivs}

NewId(ivs) == CHOOSE i \in FreeIds(ivs) : \A j \in FreeIds(ivs) : i <= j

\* setInterval(callback, period): the interval it adds
Interval(ivs, kind, period) ==
    [id |-> NewId(ivs), kind |-> kind, period |-> period, left |-> period]

\* clearInterval(handle)
clearInterval(ivs, handle) == {iv \in ivs : iv.id # handle}

\* The largest values of the two differences that the model tells apart.
InteractionCap == TANK_CONFIG.timings.preservation + TickPeriod
FlickerCap == FlickerDuration + TickPeriod

\* The configuration table, loaded before tank-decay.js as it requires.
Config ==
    [present |-> TRUE,
     timings |-> [preservation |-> CfgPreservationTicks * TickPeriod,
                  flicker |-> CfgFlickerTicks * TickPeriod]]

\* ------------------------------------------------------------------ page

\* The elements the polls look at: the audio toggle (#audio-toggle), a header
\* text (.archive-title), a popup text (.popup-label) and a second popup text
\* of the same class whose text begins with the same 10 characters.
Elements == {"toggle", "title", "label", "label2"}

\* querySelectorAll of the beam poll, in document order.
BeamTargets == <<"title", "label">>

\* querySelectorAll of the audio poll: impact texts and fizz texts.
ImpactElements == <<"title">>
FizzElements == <<"label", "label2">>

\* A key that tells the two popup texts apart.
KeyPerElement(el) ==
    IF el = "title" THEN "archive-titleLOOKAWAY"
    ELSE IF el = "label" THEN "popup-labelSPECIMEN"
    ELSE "popup-labelSPECIMEN#2"

\* el.className + el.textContent.substring(0, 10)
Key(el) == IF el = "title" THEN "archive-titleLOOKAWAY" ELSE "popup-labelSPECIMEN"

Keys == {Key(el) : el \in {"title", "label", "label2"}}

\* setInterval(..., 25) of the audio poll
AudioPollPeriod == 25

\* now - lastTime > 1000
Cooldown == 1000

\* The age above which the audio poll no longer tells ages apart.
TextCap == Cooldown + AudioPollPeriod

\* rect.top and rect.height of a bounding rectangle; rect.bottom is their sum.
Rect(t, h) == [top |-> t, height |-> h]

Bottom(rect) == rect.top + rect.height

\* No contact is being timed.
NoHold == [active |-> FALSE, time |-> 0, count |-> 0]

\* The page when the scripts load, the beam created or not (body) on a narrow
\* window or not (mobile): the beam in mid-screen, every element below it and
\* unmarked, no contact remembered.
PageWith(body, mobile) ==
    /\ beamBody = body
    /\ isMobile = mobile
    /\ scanY = 300
    /\ rects = [el \in Elements |-> Rect(600, 10)]
    /\ classList = [el \in Elements |-> {}]
    /\ glow = {}
    /\ hotspot = {}
    /\ isPaused = FALSE
    /\ lastUIContact = "null"
    /\ sinceTextContact = [k \in Keys |-> TextCap]
    /\ audioDue = FALSE
    /\ triggers = {}
    /\ streak = [el \in {"title", "label", "label2"} |-> 0]
    /\ hold = NoHold

PageAtLoad == PageWith(TRUE, FALSE)

\* -------------------------------------------------------------- specimens

\* The entry of an active specimen: the fields the two lookups read.
Contained(i, c) == [id |-> i, code |-> c, status |-> "contained"]

\* ...Array(n).fill(null).map((_, i) => ({id: i + from, code: "[EMPTY]",
\* status: "vacant", ...}))
Vacant(from, n) ==
    [i \in 1..n |-> [id |-> i - 1 + from, code |-> "[EMPTY]", status |-> "vacant"]]

\* SPECIMENS.registry as shipped: v3.0 (1 contained, 11 vacant), v3.1 (2 and
\* 10) and v3.2 (3 and 9).
Registry30 == <<Contained(1, "LEAK-WORM-847T")>> \o Vacant(2, 11)

Registry31 ==
    <<Contained(1, "LEAK-WORM-847T"), Contained(2, "LEAK-WORM-575E")>> \o Vacant(3, 10)

Registry32 ==
    <<Contained(1, "LEAK-WORM-847T"), Contained(2, "LEAK-WORM-575E"),
      Contained(3, "LEAK-WORM-EROI")>> \o Vacant(4, 9)

ShippedRegistries == {Registry30, Registry31, Registry32}

\* specimen.status.toUpperCase()
toUpperCase(st) == IF st = "contained" THEN "CONTAINED" ELSE "VACANT"

\* A result is the set of the object returned: empty for null or undefined.
\* getById(id): this.registry.find(specimen => specimen.id === id)
getById(reg, id) ==
    LET found == {i \in 1..Len(reg) : reg[i].id = id}
    IN  IF found = {}
        THEN {}
        ELSE {reg[CHOOSE i \in found : \A j \in found : i <= j]}

\* A getPopupContent(id) without the test for empty slots.
getPopupContentOfAnySlot(reg, id) ==
    {[title |-> "SPECIMEN CONTAINMENT PROTOCOL",
      code |-> specimen.code,
      status |-> toUpperCase(specimen.status)] : specimen \in getById(reg, id)}

\* getPopupContent(id)
getPopupContent(reg, id) ==
    {[title |-> "SPECIMEN CONTAINMENT PROTOCOL",
      code |-> specimen.code,
      status |-> toUpperCase(specimen.status)] :
         specimen \in {sp \in getById(reg, id) : sp.status # "vacant"}}

\* getMembraneData(id)
getMembraneData(reg, id) ==
    {[id |-> specimen.id,
      code |-> specimen.code,
      status |-> toUpperCase(specimen.status),
      clickable |-> specimen.status = "contained",
      isEmpty |-> specimen.status = "vacant"] : specimen \in getById(reg, id)}

\* No lookup has been made.
NoCall == [called |-> FALSE, id |-> 0, result |-> {}]

\* tank-specimens.js has loaded with the registry reg.
RegistryAtLoad(reg) ==
    /\ registry = reg
    /\ popup = NoCall
    /\ membrane = NoCall

\* --------------------------------------------------------------- actions

\* No pause() is being followed.
NoPause == [phase |-> "none", stage |-> "preservation", progress |-> Zero]

\* The fields and the record of the handler that ran, from its result r.
Finish(op, r) ==
    /\ stage' = r.self.stage
    /\ progress' = r.self.progress
    /\ timeSinceInteraction' = r.self.timeSinceInteraction
    /\ isFlickering' = r.self.isFlickering
    /\ flickerElapsed' = r.self.flickerElapsed
    /\ lastOp' = op
    /\ LET n == Notify(listeners, r.self.stage, r.self.progress)
       IN  /\ pass' = IF r.notify THEN [ran |-> TRUE, calls |-> n.calls] ELSE NoPass
           /\ escaped' = (r.threw \/ (r.notify /\ n.escaped))
    /\ sincePause' = IF op = "pause"
                     THEN [phase |-> "paused", stage |-> stage, progress |-> progress]
                     ELSE IF op = "resume" /\ sincePause.phase \in {"paused", "resumed"}
                     THEN [sincePause EXCEPT !.phase = "resumed"]
                     ELSE IF op = "update" /\ sincePause.phase = "resumed"
                     THEN [sincePause EXCEPT !.phase = "ticked"]
                     ELSE NoPause
    /\ UNCHANGED <<pollVars, specimenVars>>

\* The broadcaster when the scripts have loaded with the configuration
\* table cfg.
DecayAtLoad(cfg) ==
    /\ TANK_CONFIG = cfg
    /\ stage = "preservation"
    /\ progress = Zero
    /\ timeSinceInteraction = InteractionCap   \* lastInteraction: null
    /\ timer = NULL
    /\ listeners = <<>>
    /\ flickerTimer = NULL
    /\ isFlickering = FALSE
    /\ flickerElapsed = FlickerCap             \* flickerStartTime: not set, not read
    /\ intervals = {}
    /\ lastOp = "load"
    /\ pass = NoPass
    /\ escaped = FALSE
    /\ undisturbed = FALSE
    /\ sincePause = NoPause

\* The scripts have loaded with the configuration table cfg.
Load(cfg) == DecayAtLoad(cfg) /\ PageAtLoad /\ RegistryAtLoad(Registry31)

Init == Load(Config)

\* subscribe(callback) with a function
Subscribe(cb) ==
    /\ Len(listeners) < MaxListeners
    /\ listeners' = Append(listeners, cb)
    /\ lastOp' = "subscribe"
    /\ pass' = NoPass
    /\ escaped' = FALSE
    /\ UNCHANGED <<TANK_CONFIG, stage, progress, timeSinceInteraction, timer,
                   flickerTimer, isFlickering, flickerElapsed, intervals,
                   undisturbed, sincePause>>
    /\ UNCHANGED <<pollVars, specimenVars>>

\* start()
Start ==
    /\ Cardinality(intervals) + 2 <= MaxIntervals
    /\ LET s1 == [Self EXCEPT !.stage = "preservation",
                              !.timeSinceInteraction = 0,
                              !.isFlickering = FALSE]
           tick == Interval(intervals, "update", TickPeriod)
           ivs1 == intervals \cup {tick}
           flick == Interval(ivs1, "flicker", TANK_CONFIG.timings.flicker)
       IN  /\ timer' = tick.id
           /\ IF TANK_CONFIG.present
              THEN /\ flickerTimer' = flick.id
                   /\ intervals' = ivs1 \cup {flick}
                   /\ Finish("start", Done(s1, TRUE))
              ELSE /\ flickerTimer' = flickerTimer
                   /\ intervals' = ivs1
                   /\ Finish("start", Thrown(s1))
    /\ undisturbed' = FALSE
    /\ UNCHANGED <<TANK_CONFIG, listeners>>

\* reset()
Reset ==
    /\ Finish("reset", reset(Self))
    /\ undisturbed' = FALSE
    /\ UNCHANGED <<TANK_CONFIG, timer, listeners, flickerTimer, intervals>>

\* The interval of this.timer (or one that start() overwrote) fires: update()
UpdateTick(iv) ==
    /\ iv.kind = "update"
    /\ iv.left = 0
    /\ intervals' = (intervals \ {iv}) \cup {[iv EXCEPT !.left = iv.period]}
    /\ Finish("update", update(Self, TANK_CONFIG))
    /\ undisturbed' = TRUE
    /\ UNCHANGED <<TANK_CONFIG, timer, listeners, flickerTimer>>

\* A flicker interval fires: triggerFlicker()
FlickerTick(iv) ==
    /\ iv.kind = "flicker"
    /\ iv.left = 0
    /\ intervals' = (intervals \ {iv}) \cup {[iv EXCEPT !.left = iv.period]}
    /\ Finish("flickerTimer", triggerFlicker(Self))
    /\ UNCHANGED <<TANK_CONFIG, timer, listeners, flickerTimer, undisturbed>>

\* forceFlicker()
ForceFlicker ==
    /\ Finish("forceFlicker", triggerFlicker(Self))
    /\ UNCHANGED <<TANK_CONFIG, timer, listeners, flickerTimer, intervals,
                   undisturbed>>

\* setStage(stage, progress)
SetStage(st, pr) ==
    /\ Finish("setStage", setStage(Self, st, pr))
    /\ undisturbed' = FALSE
    /\ UNCHANGED <<TANK_CONFIG, timer, listeners, flickerTimer, intervals>>

\* A pause() that stops the update interval and forgets the flicker interval.
PauseKeepsFlickerTimer ==
    /\ timer' = NULL
    /\ flickerTimer' = flickerTimer
    /\ intervals' = clearInterval(intervals, timer)
    /\ Finish("pause", Done(Self, FALSE))
    /\ UNCHANGED <<TANK_CONFIG, listeners, undisturbed>>

\* pause()
Pause ==
    /\ timer' = NULL
    /\ flickerTimer' = NULL
    /\ intervals' = clearInterval(clearInterval(intervals, timer), flickerTimer)
    /\ Finish("pause", Done(Self, FALSE))
    /\ UNCHANGED <<TANK_CONFIG, listeners, undisturbed>>

\* A resume() that also calls reset().
ResumeResets ==
    /\ Cardinality(intervals) + (IF timer = NULL THEN 1 ELSE 0)
                              + (IF flickerTimer = NULL THEN 1 ELSE 0) <= MaxIntervals
    /\ LET tick == Interval(intervals, "update", TickPeriod)
           ivs1 == IF timer = NULL THEN intervals \cup {tick} ELSE intervals
           flick == Interval(ivs1, "flicker", TANK_CONFIG.timings.flicker)
       IN  /\ timer' = IF timer = NULL THEN tick.id ELSE timer
           /\ flickerTimer' = IF flickerTimer = NULL THEN flick.id ELSE flickerTimer
           /\ intervals' = IF flickerTimer = NULL THEN ivs1 \cup {flick} ELSE ivs1
           /\ Finish("resume", reset(Self))
    /\ UNCHANGED <<TANK_CONFIG, listeners, undisturbed>>

\* resume()
Resume ==
    /\ Cardinality(intervals) + (IF timer = NULL THEN 1 ELSE 0)
                              + (IF flickerTimer = NULL THEN 1 ELSE 0) <= MaxIntervals
    /\ LET tick == Interval(intervals, "update", TickPeriod)
           ivs1 == IF timer = NULL THEN intervals \cup {tick} ELSE intervals
           flick == Interval(ivs1, "flicker", TANK_CONFIG.timings.flicker)
       IN  /\ timer' = IF timer = NULL THEN tick.id ELSE timer
           /\ IF flickerTimer # NULL
              THEN /\ flickerTimer' = flickerTimer
                   /\ intervals' = ivs1
                   /\ Finish("resume", Done(Self, FALSE))
              ELSE IF TANK_CONFIG.present
              THEN /\ flickerTimer' = flick.id
                   /\ intervals' = ivs1 \cup {flick}
                   /\ Finish("resume", Done(Self, FALSE))
              ELSE /\ flickerTimer' = flickerTimer
                   /\ intervals' = ivs1
                   /\ Finish("resume", Thrown(Self))
    /\ UNCHANGED <<TANK_CONFIG, listeners, undisturbed>>

\* destroy()
Destroy ==
    /\ timer' = NULL
    /\ flickerTimer' = NULL
    /\ intervals' = clearInterval(clearInterval(intervals, timer), flickerTimer)
    /\ listeners' = <<>>
    /\ stage' = "preservation"
    /\ isFlickering' = FALSE
    /\ lastOp' = "destroy"
    /\ pass' = NoPass
    /\ escaped' = FALSE
    /\ undisturbed' = FALSE
    /\ sincePause' = NoPause
    /\ UNCHANGED <<TANK_CONFIG, progress, timeSinceInteraction, flickerElapsed>>
    /\ UNCHANGED <<pollVars, specimenVars>>

\* Time passes: d ms, or less when an interval is due sooner; never while an
\* interval is due.
Advance(d) ==
    LET e == IF \E iv \in intervals : iv.left < d
             THEN CHOOSE x \in {iv.left : iv \in intervals} :
                      \A iv \in intervals : x <= iv.left
             ELSE d
    IN  /\ e > 0
        /\ intervals' = {[iv EXCEPT !.left = iv.left - e] : iv \in intervals}
        /\ timeSinceInteraction' = Min(timeSinceInteraction + e, InteractionCap)
        /\ flickerElapsed' = Min(flickerElapsed + e, FlickerCap)
        /\ lastOp' = "advance"
        /\ pass' = NoPass
        /\ escaped' = FALSE
        /\ UNCHANGED <<TANK_CONFIG, stage, progress, timer, listeners, flickerTimer,
                       isFlickering, undisturbed, sincePause>>
        /\ UNCHANGED <<pollVars, specimenVars>>

Next ==
    \/ \E cb \in Callbacks : Subscribe(cb)
    \/ Start
    \/ Reset
    \/ \E iv \in intervals : UpdateTick(iv)
    \/ \E iv \in intervals : FlickerTick(iv)
    \/ ForceFlicker
    \/ \E a \in SetStageArgs : SetStage(a[1], a[2])
    \/ Pause
    \/ Resume
    \/ Destroy
    \/ \E d \in Steps : Advance(d)

Spec == Init /\ [][Next]_vars

\* The broadcaster driven through everything but the debug override setStage.
NextNoOverride ==
    \/ \E cb \in Callbacks : Subscribe(cb)
    \/ Start
    \/ Reset
    \/ \E iv \in intervals : UpdateTick(iv)
    \/ \E iv \in intervals : FlickerTick(iv)
    \/ ForceFlicker
    \/ Pause
    \/ Resume
    \/ Destroy
    \/ \E d \in Steps : Advance(d)

SpecNoOverride == Init /\ [][NextNoOverride]_vars

\* start(), called once after load.
StartOnce ==
    /\ lastOp = "load"
    /\ Start

\* The running broadcaster: started once, never paused nor destroyed, its two
\* timers firing, the user interacting (reset) and flickers being forced.
NextRunning ==
    \/ StartOnce
    \/ \E iv \in intervals : UpdateTick(iv)
    \/ \E iv \in intervals : FlickerTick(iv)
    \/ \E d \in Steps : Advance(d)
    \/ Reset
    \/ ForceFlicker

\* The event loop runs a due timer callback, and time does not stop.
FairTimers ==
    /\ WF_vars(\E iv \in intervals : UpdateTick(iv))
    /\ WF_vars(\E iv \in intervals : FlickerTick(iv))
    /\ WF_vars(\E d \in Steps : Advance(d))

SpecRunning == Init /\ [][NextRunning]_vars /\ FairTimers

\* The shipped configuration table: timings.preservation and timings.flicker.
ShippedPreservation == 300000
ShippedFlicker == 10000

ShippedConfig ==
    [present |-> TRUE,
     timings |-> [preservation |-> ShippedPreservation, flicker |-> ShippedFlicker]]

\* How long the uninterrupted run is followed, in ms.
MaxRunTime == 150000

\* Time passes in the uninterrupted run.
AdvanceRun(d) ==
    /\ timer # NULL
    /\ timeSinceInteraction < MaxRunTime
    /\ Advance(d)

\* The broadcaster under the shipped table, started once and left alone: only
\* its two timers fire.  start() sets lastInteraction, nothing resets it and
\* the cycle is not over, so timeSinceInteraction is the time since start().
NextShipped ==
    \/ StartOnce
    \/ \E iv \in intervals : UpdateTick(iv)
    \/ \E iv \in intervals : FlickerTick(iv)
    \/ \E d \in Steps : AdvanceRun(d)

SpecShipped == Load(ShippedConfig) /\ [][NextShipped]_vars

\* ------------------------------------------------------------ beam poll

\* window.innerHeight of the page under check, in px.
InnerHeight == 600

\* const buffer = isMobile ? 100 : 200
MobileBuffer == 100
DesktopBuffer == 200

\* const minHeight = 40
MinHeight == 40

\* isInBounds && distance < 60
ApproachDistance == 60

\* distance < Math.max(20, rect.height / 2)
ContactDistance == 20

Max(a, b) == IF a >= b THEN a ELSE b

Abs(a) == IF a < 0 THEN -a ELSE a

\* Positions are whole pixels; halves (rect.height / 2) are avoided by comparing
\* doubled values.  2 * Math.abs(beamY - targetY):
Distance2(y, rect) == Abs(2 * y - (2 * rect.top + rect.height))

\* A padding that widens every region to at least twice the minimum height.
Padding2Wide(rect) == Max(rect.height, 2 * MinHeight) - rect.height

\* 2 * padding, with effectiveHeight = Math.max(rect.height, minHeight)
Padding2(rect) == Max(rect.height, MinHeight) - rect.height

\* beamY >= topBound && beamY <= bottomBound
IsInBounds(y, rect) ==
    /\ 2 * y >= 2 * rect.top - Padding2(rect)
    /\ 2 * y <= 2 * Bottom(rect) + Padding2(rect)

\* elementTop < viewportTop || elementTop > viewportBottom, where elementTop
\* is rect.top + scrollY and the viewport runs from scrollY - buffer to
\* scrollY + innerHeight + buffer: scrollY cancels.
OutOfView(rect, mobile) ==
    LET buffer == IF mobile THEN MobileBuffer ELSE DesktopBuffer
    IN  rect.top < -buffer \/ rect.top > InnerHeight + buffer

\* What the poll has done so far: the marker classes, the indicators, hitSomething.
Page == [classList |-> classList, glow |-> glow, hotspot |-> hotspot,
         hitSomething |-> FALSE]

\* A beam poll that marks a target from its distance alone, never testing the
\* padded bounds.
targetNoBounds(pg, el, y, rect, mobile) ==
    IF OutOfView(rect, mobile)
    THEN pg
    ELSE IF Distance2(y, rect) < 2 * ApproachDistance
    THEN IF Distance2(y, rect) < Max(2 * ContactDistance, rect.height)
         THEN [pg EXCEPT !.glow = @ \cup {"approaching"},
                         !.classList[el] = @ \cup {"beam-approaching", "beam-contact"},
                         !.hotspot = @ \cup {"active"},
                         !.hitSomething = TRUE]
         ELSE [pg EXCEPT !.glow = @ \cup {"approaching"},
                         !.classList[el] = (@ \cup {"beam-approaching"}) \ {"beam-contact"}]
    ELSE [pg EXCEPT !.classList[el] = @ \ {"beam-contact", "beam-approaching"}]

\* A beam poll whose contact marker replaces the approaching marker.
targetContactReplaces(pg, el, y, rect, mobile) ==
    IF OutOfView(rect, mobile)
    THEN pg
    ELSE IF IsInBounds(y, rect) /\ Distance2(y, rect) < 2 * ApproachDistance
    THEN IF Distance2(y, rect) < Max(2 * ContactDistance, rect.height)
         THEN [pg EXCEPT !.glow = @ \cup {"approaching"},
                         !.classList[el] = (@ \cup {"beam-contact"}) \ {"beam-approaching"},
                         !.hotspot = @ \cup {"active"},
                         !.hitSomething = TRUE]
         ELSE [pg EXCEPT !.glow = @ \cup {"approaching"},
                         !.classList[el] = (@ \cup {"beam-approaching"}) \ {"beam-contact"}]
    ELSE [pg EXCEPT !.classList[el] = @ \ {"beam-contact", "beam-approaching"}]

\* The body of targets.forEach(target => ...) for one target
target(pg, el, y, rect, mobile) ==
    IF OutOfView(rect, mobile)
    THEN pg
    ELSE IF IsInBounds(y, rect) /\ Distance2(y, rect) < 2 * ApproachDistance
    THEN IF Distance2(y, rect) < Max(2 * ContactDistance, rect.height)
         THEN [pg EXCEPT !.glow = @ \cup {"approaching"},
                         !.classList[el] = @ \cup {"beam-approaching", "beam-contact"},
                         !.hotspot = @ \cup {"active"},
                         !.hitSomething = TRUE]
         ELSE [pg EXCEPT !.glow = @ \cup {"approaching"},
                         !.classList[el] = (@ \cup {"beam-approaching"}) \ {"beam-contact"}]
    ELSE [pg EXCEPT !.classList[el] = @ \ {"beam-contact", "beam-approaching"}]

\* targets.forEach over the first n targets
RECURSIVE forEachTarget(_, _, _, _, _)
forEachTarget(pg, n, y, rs, mobile) ==
    IF n = 0
    THEN pg
    ELSE target(forEachTarget(pg, n - 1, y, rs, mobile),
                BeamTargets[n], y, rs[BeamTargets[n]], mobile)

\* A poll callback without the closing if (!hitSomething) step.
collisionCheckNoRelaxation(pg, y, rs, mobile) ==
    forEachTarget(pg, Len(BeamTargets), y, rs, mobile)

\* The poll callback, past its guard
collisionCheck(pg, y, rs, mobile) ==
    LET done == forEachTarget(pg, Len(BeamTargets), y, rs, mobile)
    IN  IF ~done.hitSomething
        THEN [done EXCEPT !.hotspot = @ \ {"active"}, !.glow = @ \ {"approaching"}]
        ELSE done

\* The rectangles tried for a beam target: thin ones (height 10) centred on
\* the beam at 300, at distance 20 and 30 from it, and scrolled above the
\* viewport by 150 and by 250; the region of the spec's scenario (100..140);
\* one of height 100 at distance 50; tall ones (height 200) centred on the
\* beam at 300 and at distance 70 from it.
BeamRects ==
    {Rect(295, 10), Rect(275, 10), Rect(265, 10), Rect(-150, 10), Rect(-250, 10),
     Rect(100, 40), Rect(200, 100), Rect(200, 200), Rect(130, 200)}

\* The scan positions tried: the spec's scenario (125) and mid-screen.
ScanYs == {125, 300}

\* The other variables of the model do not change in a step of a poll.
PollStep(op) ==
    /\ lastOp' = op
    /\ UNCHANGED <<decayVars, specimenVars>>

\* The beam poll's interval fires
BeamPoll ==
    /\ IF isPaused \/ ~beamBody
       THEN UNCHANGED <<classList, glow, hotspot>>
       ELSE LET done == collisionCheck(Page, scanY, rects, isMobile)
            IN  /\ classList' = done.classList
                /\ glow' = done.glow
                /\ hotspot' = done.hotspot
    /\ PollStep("beamPoll")
    /\ UNCHANGED <<beamBody, isMobile, scanY, rects, isPaused, lastUIContact,
                   sinceTextContact, audioDue, triggers, streak, hold>>

\* TankBeam.pause()
BeamPause ==
    /\ isPaused' = TRUE
    /\ PollStep("beamPause")
    /\ UNCHANGED <<beamBody, isMobile, scanY, rects, classList, glow, hotspot,
                   lastUIContact, sinceTextContact, audioDue, triggers, streak, hold>>

\* TankBeam.resume()
BeamResume ==
    /\ isPaused' = FALSE
    /\ PollStep("beamResume")
    /\ UNCHANGED <<beamBody, isMobile, scanY, rects, classList, glow, hotspot,
                   lastUIContact, sinceTextContact, audioDue, triggers, streak, hold>>

\* The page scrolls or is laid out anew: the rectangle of el becomes rect.
Move(el, rect) ==
    /\ rects' = [rects EXCEPT ![el] = rect]
    /\ PollStep("move")
    /\ UNCHANGED <<beamBody, isMobile, scanY, classList, glow, hotspot, isPaused,
                   lastUIContact, sinceTextContact, audioDue, triggers, streak, hold>>

\* The beam's sweep animation moves it to y.
MoveBeam(y) ==
    /\ scanY' = y
    /\ PollStep("move")
    /\ UNCHANGED <<beamBody, isMobile, rects, classList, glow, hotspot, isPaused,
                   lastUIContact, sinceTextContact, audioDue, triggers, streak, hold>>

InitBeam ==
    /\ DecayAtLoad(Config)
    /\ RegistryAtLoad(Registry31)
    /\ \E body \in BOOLEAN, mobile \in BOOLEAN : PageWith(body, mobile)

NextBeam ==
    \/ BeamPoll
    \/ BeamPause
    \/ BeamResume
    \/ \E i \in 1..Len(BeamTargets) : \E rect \in BeamRects : Move(BeamTargets[i], rect)
    \/ \E y \in ScanYs : MoveBeam(y)

SpecBeam == InitBeam /\ [][NextBeam]_vars

\* ----------------------------------------------------------- audio poll

\* beamY >= rect.top && beamY <= rect.bottom
BeamOn(y, rect) == y >= rect.top /\ y <= Bottom(rect)

\* What the audio poll has done so far: the classes of the toggle, the two
\* memories and the discrete triggers fired.
Audio == [toggle |-> classList["toggle"], lastUIContact |-> lastUIContact,
          since |-> sinceTextContact, fired |-> {}]

\* A toggle branch that triggers on every poll that finds the beam on the toggle.
toggleContactEveryPoll(au, y, rect) ==
    IF BeamOn(y, rect)
    THEN [au EXCEPT !.toggle = @ \cup {"beam-contact"},
                    !.fired = @ \cup {<<"triggerUIContact", "toggle">>},
                    !.lastUIContact = "audio-toggle"]
    ELSE [au EXCEPT !.toggle = @ \ {"beam-contact"},
                    !.lastUIContact = "null"]

\* if (audioToggle) { ... }
toggleContact(au, y, rect) ==
    IF BeamOn(y, rect)
    THEN IF au.lastUIContact # "audio-toggle"
         THEN [au EXCEPT !.toggle = @ \cup {"beam-contact"},
                         !.fired = @ \cup {<<"triggerUIContact", "toggle">>},
                         !.lastUIContact = "audio-toggle"]
         ELSE [au EXCEPT !.toggle = @ \cup {"beam-contact"}]
    ELSE IF au.lastUIContact = "audio-toggle"
         THEN [au EXCEPT !.toggle = @ \ {"beam-contact"},
                         !.lastUIContact = "null"]
         ELSE [au EXCEPT !.toggle = @ \ {"beam-contact"}]

\* A text callback that fires as soon as the cooldown has run out: >= 1000.
textContactAtCooldown(au, el, y, rect, fn) ==
    IF BeamOn(y, rect) /\ au.since[Key(el)] >= Cooldown
    THEN [au EXCEPT !.fired = @ \cup {<<fn, el>>},
                    !.since[Key(el)] = 0]
    ELSE au

\* The body of impactElements.forEach / fizzElements.forEach for one element;
\* fn is the trigger it calls.
textContact(au, el, y, rect, fn) ==
    IF BeamOn(y, rect) /\ au.since[Key(el)] > Cooldown
    THEN [au EXCEPT !.fired = @ \cup {<<fn, el>>},
                    !.since[Key(el)] = 0]
    ELSE au

\* els.forEach over the first n elements of els
RECURSIVE forEachText(_, _, _, _, _, _)
forEachText(au, els, n, y, rs, fn) ==
    IF n = 0
    THEN au
    ELSE textContact(forEachText(au, els, n - 1, y, rs, fn),
                     els[n], y, rs[els[n]], fn)

\* The audio poll callback when the beam exists.  audio.triggerBeamSweep(beamY),
\* called on every poll, drives the continuous sweep tone and is not a discrete
\* trigger.
contactPoll(au, y, rs) ==
    LET t == toggleContact(au, y, rs["toggle"])
        i == forEachText(t, ImpactElements, Len(ImpactElements), y, rs,
                         "triggerUIContact")
    IN  forEachText(i, FizzElements, Len(FizzElements), y, rs, "triggerBeamFizz")

\* How long a contact is timed, in ms.
HoldTime == 3000

\* The most triggers counted for a timed contact.
MaxCount == 4

\* The audio poll's interval fires
AudioPoll ==
    /\ audioDue
    /\ audioDue' = FALSE
    /\ IF ~beamBody
       THEN /\ triggers' = {}
            /\ UNCHANGED <<classList, lastUIContact, sinceTextContact, streak, hold>>
       ELSE LET done == contactPoll(Audio, scanY, rects)
            IN  /\ classList' = [classList EXCEPT !["toggle"] = done.toggle]
                /\ lastUIContact' = done.lastUIContact
                /\ sinceTextContact' = done.since
                /\ triggers' = done.fired
                /\ streak' = [el \in DOMAIN streak |->
                                 IF BeamOn(scanY, rects[el])
                                 THEN Min(streak[el] + 1, 2)
                                 ELSE 0]
                /\ hold' = IF hold.active /\ <<"triggerUIContact", "title">> \in done.fired
                           THEN [hold EXCEPT !.count = Min(@ + 1, MaxCount)]
                           ELSE hold
    /\ PollStep("audioPoll")
    /\ UNCHANGED <<beamBody, isMobile, scanY, rects, glow, hotspot, isPaused>>

\* The time from one audio poll to the next: the period, or twice the period
\* when the callback runs late.
PollDelays == {AudioPollPeriod, 2 * AudioPollPeriod}

\* d ms pass and the audio poll is due.
AudioWait(d) ==
    /\ ~audioDue
    /\ hold.active => hold.time < HoldTime
    /\ audioDue' = TRUE
    /\ sinceTextContact' = [k \in Keys |-> Min(sinceTextContact[k] + d, TextCap)]
    /\ hold' = IF hold.active
               THEN [hold EXCEPT !.time = @ + d]
               ELSE hold
    /\ PollStep("audioWait")
    /\ UNCHANGED <<beamBody, isMobile, scanY, rects, classList, glow, hotspot,
                   isPaused, lastUIContact, triggers, streak>>

\* From the poll that is due, which finds the header text newly in contact
\* and the other elements away and cooled down, the page stays as it is: the
\* contact of the header text is timed and its triggers are counted.
Hold ==
    /\ ~hold.active
    /\ beamBody
    /\ audioDue
    /\ streak["title"] = 0
    /\ BeamOn(scanY, rects["title"])
    /\ ~BeamOn(scanY, rects["label"])
    /\ ~BeamOn(scanY, rects["toggle"])
    /\ lastUIContact = "null"
    /\ sinceTextContact[Key("label")] = TextCap
    /\ hold' = [active |-> TRUE, time |-> 0, count |-> 0]
    /\ PollStep("hold")
    /\ UNCHANGED <<beamBody, isMobile, scanY, rects, classList, glow, hotspot,
                   isPaused, lastUIContact, sinceTextContact, audioDue, triggers,
                   streak>>

\* The page moves while no contact is being timed.
MoveFree(el, rect) ==
    /\ ~hold.active
    /\ Move(el, rect)

\* The rectangles tried for the audio poll: bottom edge on the beam at 300, and
\* away from it.
AudioRects == {Rect(290, 10), Rect(600, 10)}

\* The elements that move under the audio poll; the second popup text stays
\* away from the beam.
AudioMoved == {"toggle", "title", "label"}

InitAudio ==
    /\ DecayAtLoad(Config)
    /\ RegistryAtLoad(Registry31)
    /\ \E body \in BOOLEAN : PageWith(body, FALSE)

NextAudio ==
    \/ \E d \in PollDelays : AudioWait(d)
    \/ AudioPoll
    \/ \E el \in AudioMoved : \E rect \in AudioRects : MoveFree(el, rect)
    \/ Hold

SpecAudio == InitAudio /\ [][NextAudio]_vars

\* ================================================================ claims

Stages == {"preservation", "flicker"}

InUnit(p) == Leq(Zero, p) /\ Leq(p, One)

Cycle == TANK_CONFIG.timings.preservation

TriggerOps == {"flickerTimer", "forceFlicker"}

\* C1: every notification pass calls each registered listener once, in the
\* order of registration, with the current stage and progress; and every
\* update tick makes such a pass.
C1_NotifyEveryListenerInOrder ==
    /\ lastOp = "update" => pass.ran
    /\ pass.ran =>
          /\ Len(pass.calls) = Len(listeners)
          /\ \A i \in 1..Len(pass.calls) :
                /\ pass.calls[i].callback = listeners[i]
                /\ pass.calls[i].stage = stage
                /\ pass.calls[i].progress = progress

\* An update tick has notified two different listeners.
C1_Witness ==
    /\ lastOp = "update"
    /\ pass.ran
    /\ Len(listeners) = 2
    /\ listeners[1] # listeners[2]
    /\ Len(pass.calls) = 2

\* C2: a listener that throws does not end the pass (the listeners after it
\* are called), stays registered, is called again on every update tick, and
\* its exception does not leave the handler.
C2_ThrowingListenerIsIsolated ==
    /\ ~escaped
    /\ pass.ran =>
          \A i \in 1..Len(pass.calls) :
              pass.calls[i].threw =>
                  /\ i <= Len(listeners) /\ listeners[i] = pass.calls[i].callback
                  /\ \A j \in (i + 1)..Len(listeners) :
                        j <= Len(pass.calls) /\ pass.calls[j].callback = listeners[j]
    /\ lastOp = "update" =>
          \A i \in 1..Len(listeners) :
              listeners[i] \in Throwing =>
                  /\ i <= Len(pass.calls)
                  /\ pass.calls[i].callback = listeners[i]
                  /\ pass.calls[i].threw

\* An update tick in which the first listener threw and the second was called.
C2_Witness ==
    /\ lastOp = "update"
    /\ Len(listeners) = 2
    /\ listeners[1] \in Throwing
    /\ listeners[2] \notin Throwing
    /\ Len(pass.calls) = 2
    /\ pass.calls[1].threw
    /\ pass.calls[2].callback = listeners[2]

\* C3 as stated: the stage is always preservation or flicker.
C3_Original == stage \in Stages

\* C3, amended: no operation other than setStage takes the stage out of
\* {preservation, flicker}; start, destroy, an update tick outside a flicker
\* and every transition made by triggerFlicker or reset put it back there.
C3_StageEnumeratedButForSetStage ==
    [][ /\ (stage \in Stages /\ lastOp' # "setStage") => stage' \in Stages
        /\ (lastOp' \in {"start", "destroy"}) => stage' \in Stages
        /\ (lastOp' = "update" /\ ~isFlickering) => stage' = "preservation"
        /\ (lastOp' \in TriggerOps \cup {"reset"} /\ pass'.ran) => stage' \in Stages
      ]_vars

\* The flicker timer has put the broadcaster in flicker.
C3_Witness ==
    /\ lastOp = "flickerTimer"
    /\ pass.ran
    /\ stage = "flicker"
    /\ isFlickering

\* C4 as stated: when an update tick ends a flicker, exactly 1000 ms have
\* passed since the flicker began.
C4_Original ==
    [][ (isFlickering /\ lastOp' = "update" /\ ~isFlickering')
            => flickerElapsed = FlickerDuration ]_vars

\* C4, amended: a flicker is ended by the first update tick that finds at
\* least 1000 ms passed since it began, and by no update tick before that;
\* the tick that ends it leaves (preservation, 0), a tick before that leaves
\* the flicker on with progress elapsed / 1000.
C4_FlickerEndsAtFirstTickAfterDuration ==
    [][ (isFlickering /\ lastOp' = "update") =>
            IF flickerElapsed >= FlickerDuration
            THEN ~isFlickering' /\ stage' = "preservation" /\ progress' = Zero
            ELSE /\ isFlickering'
                 /\ stage' = stage
                 /\ progress' = Ratio(flickerElapsed, FlickerDuration)
      ]_vars

\* An update tick has ended a flicker 1000 ms after it began (the baseline
\* of the preservation cycle is untouched, so this tick was no cycle restart).
C4_Witness ==
    /\ lastOp = "update"
    /\ ~isFlickering
    /\ stage = "preservation"
    /\ progress = Zero
    /\ timeSinceInteraction > 0
    /\ flickerElapsed = FlickerDuration

\* C5: triggerFlicker (from the flicker timer or forceFlicker) during a
\* flicker changes neither stage, progress nor the flicker start time, and
\* notifies nobody.
C5_TriggerDuringFlickerIsNoOp ==
    [][ (isFlickering /\ lastOp' \in TriggerOps) =>
            /\ stage' = stage
            /\ progress' = progress
            /\ flickerElapsed' = flickerElapsed
            /\ isFlickering'
            /\ ~pass'.ran
      ]_vars

\* The flicker timer fired during a flicker (a trigger that starts a flicker
\* makes a pass, so this one did not).
C5_Witness ==
    /\ lastOp = "flickerTimer"
    /\ isFlickering
    /\ ~pass.ran
    /\ flickerElapsed > 0
    /\ Len(listeners) > 0

\* C6: reset() during a flicker notifies (preservation, 0) at once, to every
\* listener, and sets the baseline of the preservation cycle to the time of
\* the call.
C6_ResetDuringFlicker ==
    [][ (isFlickering /\ lastOp' = "reset") =>
            /\ pass'.ran
            /\ Len(pass'.calls) = Len(listeners)
            /\ \A i \in 1..Len(pass'.calls) :
                  /\ pass'.calls[i].stage = "preservation"
                  /\ pass'.calls[i].progress = Zero
            /\ stage' = "preservation"
            /\ progress' = Zero
            /\ ~isFlickering'
            /\ timeSinceInteraction' = 0
      ]_vars

\* reset() has ended a flicker and notified a listener (reset notifies only
\* when it ends a flicker).
C6_Witness ==
    /\ lastOp = "reset"
    /\ pass.ran
    /\ Len(pass.calls) > 0
    /\ pass.calls[1].stage = "preservation"
    /\ pass.calls[1].progress = Zero
    /\ timeSinceInteraction = 0

\* C7 as stated, for the notifications of update ticks: a tick that stays in
\* the same state never notifies a smaller progress than the notification
\* before it (whose progress was in range).
C7_Original ==
    [][ (lastOp' = "update" /\ stage' = stage /\ isFlickering' = isFlickering
            /\ InUnit(progress))
            => Leq(progress, progress') ]_vars

\* C7, amended: an update tick that stays in the same state never notifies a
\* smaller progress than the notification before it, unless the preservation
\* cycle restarts at this tick (elapsed >= cycle length, progress back to 0
\* with no change of state) or start, reset, setStage or destroy was called
\* since the previous tick.
C7_ProgressMonotoneBetweenTicks ==
    [][ (lastOp' = "update" /\ undisturbed
            /\ stage' = stage /\ isFlickering' = isFlickering
            /\ ~(~isFlickering /\ timeSinceInteraction >= Cycle))
            => Leq(progress, progress') ]_vars

\* An update tick during a flicker, following another, has raised the progress.
C7_Witness ==
    /\ lastOp = "update"
    /\ undisturbed
    /\ isFlickering
    /\ stage = "flicker"
    /\ progress = Ratio(2 * TickPeriod, FlickerDuration)

\* C8 as stated: an update tick in preservation at elapsed time t <= C leaves
\* progress min(t / C, 1) (the reset to 0 comes only when t / C exceeds 1).
C8_Original ==
    [][ (lastOp' = "update" /\ ~isFlickering /\ timeSinceInteraction <= Cycle)
            => progress' = MinRatioOne(timeSinceInteraction, Cycle) ]_vars

\* C8, amended: an update tick in preservation at elapsed time t leaves
\* progress t / C when t < C; when t >= C (progress would reach 1.0) it leaves
\* progress 0 and restarts the baseline, so 1.0 is never notified.
C8_PreservationProgress ==
    [][ (lastOp' = "update" /\ ~isFlickering) =>
            /\ stage' = "preservation"
            /\ IF timeSinceInteraction < Cycle
               THEN /\ progress' = Ratio(timeSinceInteraction, Cycle)
                    /\ timeSinceInteraction' = timeSinceInteraction
               ELSE /\ progress' = Zero
                    /\ timeSinceInteraction' = 0
            /\ pass'.ran
            /\ \A i \in 1..Len(pass'.calls) : Less(pass'.calls[i].progress, One)
      ]_vars

\* An update tick in preservation has notified a progress strictly inside
\* the cycle.
C8_Witness ==
    /\ lastOp = "update"
    /\ ~isFlickering
    /\ stage = "preservation"
    /\ timeSinceInteraction = TickPeriod
    /\ progress = Ratio(TickPeriod, Cycle)
    /\ Less(Zero, progress)
    /\ Len(pass.calls) > 0

Held == {iv \in intervals : iv.id \in {timer, flickerTimer} \ {NULL}}

Frame ==
    /\ stage' = stage
    /\ progress' = progress
    /\ isFlickering' = isFlickering
    /\ listeners' = listeners
    /\ timeSinceInteraction' = timeSinceInteraction
    /\ flickerElapsed' = flickerElapsed
    /\ ~pass'.ran

\* C10: pause() stops the interval of this.timer and that of
\* this.flickerTimer and clears both fields (no interval is left when none
\* had been overwritten by a second start); resume() leaves one update
\* interval and one flicker interval running under the two fields; neither
\* changes stage, progress, isFlickering, the listeners or the two time
\* baselines, and neither notifies.
C10_PauseResume ==
    [][ /\ lastOp' = "pause" =>
              /\ timer' = NULL /\ flickerTimer' = NULL
              /\ intervals' = intervals \ Held
              /\ (Held = intervals => intervals' = {})
              /\ Frame
        /\ lastOp' = "resume" =>
              /\ timer' # NULL /\ flickerTimer' # NULL /\ timer' # flickerTimer'
              /\ \E iv \in intervals' : iv.id = timer' /\ iv.kind = "update"
              /\ \E iv \in intervals' : iv.id = flickerTimer' /\ iv.kind = "flicker"
              /\ intervals \subseteq intervals'
              /\ (timer # NULL => timer' = timer)
              /\ (flickerTimer # NULL => flickerTimer' = flickerTimer)
              /\ Frame
      ]_vars

\* pause() has stopped every interval in the middle of a flicker.
C10_Witness ==
    /\ lastOp = "pause"
    /\ intervals = {}
    /\ timer = NULL /\ flickerTimer = NULL
    /\ isFlickering
    /\ Less(Zero, progress)
    /\ Len(listeners) > 0

C12_Original ==
    lastOp = "destroy" =>
        /\ timer = NULL
        /\ flickerTimer = NULL
        /\ Held = {}
        /\ listeners = <<>>
        /\ stage = "preservation"
        /\ ~isFlickering
        /\ progress = Zero

\* C13: while the broadcaster is running and its timers fire fairly, every
\* flicker is eventually followed by preservation and preservation is
\* eventually followed by another flicker.
C13_BothStagesRecur ==
    /\ (timer # NULL /\ isFlickering) ~> (~isFlickering /\ stage = "preservation")
    /\ (timer # NULL /\ ~isFlickering) ~> (isFlickering /\ stage = "flicker")

\* An update tick has just ended a flicker that lasted its full second.
C13_Witness ==
    /\ timer # NULL
    /\ lastOp = "update"
    /\ ~isFlickering
    /\ stage = "preservation"
    /\ flickerElapsed = FlickerDuration
    /\ undisturbed

\* Half the cycle length of the table in use.
HalfCycle == TANK_CONFIG.timings.preservation \div 2

\* |p - 1/2| <= one tick period / cycle length
WithinTickOfHalf(p) ==
    LET n == 2 * p[1] - p[2]
        a == IF n < 0 THEN -n ELSE n
    IN  a * TANK_CONFIG.timings.preservation <= TickPeriod * 2 * p[2]

\* C20 as stated: with cycle length 300000 ms and a 100 ms tick, started at
\* time 0 and left without interaction, the progress of the broadcaster at
\* time 150000 is within 100/300000 of 1/2.
C20_Original ==
    (timer # NULL /\ timeSinceInteraction = HalfCycle) => WithinTickOfHalf(progress)

\* C20: under the shipped table, started at time 0 and left alone, at time
\* 150000 the broadcaster is in preservation with a progress within 100/300000
\* of 1/2 until the flicker timer, due at that same instant for the 15th
\* time, has fired; from then on it is in flicker at progress 0.
C20_HalfCycleProgress ==
    (timer # NULL /\ timeSinceInteraction = HalfCycle) =>
        IF isFlickering
        THEN /\ stage = "flicker"
             /\ progress = Zero
             /\ \A iv \in intervals : iv.kind = "flicker" => iv.left > 0
        ELSE /\ stage = "preservation"
             /\ WithinTickOfHalf(progress)
             /\ \E iv \in intervals : iv.kind = "flicker" /\ iv.left = 0

\* The update tick at time 150000 ran before the flicker timer and has
\* reported progress 1/2 in preservation.
C20_Witness ==
    /\ TANK_CONFIG = ShippedConfig
    /\ timeSinceInteraction = 150000
    /\ lastOp = "update"
    /\ stage = "preservation"
    /\ ~isFlickering
    /\ progress = <<1, 2>>

\* The beam poll has just run past its guard.
UnpausedPoll == lastOp = "beamPoll" /\ ~isPaused /\ beamBody

Targets == {BeamTargets[i] : i \in 1..Len(BeamTargets)}

\* The poll looked at el: it did not skip it at the viewport test.
Examined(el) == ~OutOfView(rects[el], isMobile)

\* Twice the distance of the scan position to the centre (top + bottom) / 2.
CentreDistance2(el) == Abs(2 * scanY - (rects[el].top + Bottom(rects[el])))

\* The classification a region carries: contact, approaching or idle.
Class(el) ==
    IF "beam-contact" \in classList[el] THEN "contact"
    ELSE IF "beam-approaching" \in classList[el] THEN "approaching"
    ELSE "idle"

\* C14 as stated: after an unpaused poll tick, a region the tick examined is
\* classified contact if and only if |scanY - centre| < max(20, (bottom -
\* top) / 2), the comparison being strict.
C14_Original ==
    UnpausedPoll =>
        \A el \in Targets :
            Examined(el) =>
                (Class(el) = "contact" <=>
                    CentreDistance2(el) <
                        Max(2 * ContactDistance, Bottom(rects[el]) - rects[el].top))

\* C15: after an unpaused poll tick, a region the tick examined is classified
\* approaching exactly when it is not in contact, its distance to the scan
\* position is below 60 and the scan position lies within the bounds padded
\* to the effective height max(height, 40), that is within centre +-
\* max(height, 40) / 2; every other region without contact is idle.
C15_ApproachingClassification ==
    UnpausedPoll =>
        \A el \in Targets :
            Examined(el) =>
                LET h == Bottom(rects[el]) - rects[el].top
                    qualifies ==
                        /\ ~(CentreDistance2(el) < Max(2 * ContactDistance, h))
                        /\ CentreDistance2(el) < 2 * ApproachDistance
                        /\ CentreDistance2(el) <= Max(h, MinHeight)
                IN  /\ Class(el) = "approaching" <=> qualifies
                    /\ (Class(el) # "contact" /\ ~qualifies) => Class(el) = "idle"
                    /\ Class(el) = "idle" => classList[el] = {}

\* A poll has classified one region approaching and another, at distance 30
\* from the scan position but outside its padded bounds, idle.
C15_Witness ==
    /\ UnpausedPoll
    /\ scanY = 300
    /\ rects["title"] = Rect(275, 10)
    /\ Class("title") = "approaching"
    /\ rects["label"] = Rect(265, 10)
    /\ Class("label") = "idle"

\* C18: after an unpaused poll tick in which no examined region was
\* classified contact, the hotspot does not carry 'active' and the glow does
\* not carry 'approaching'.
C18_NothingActiveResets ==
    (UnpausedPoll /\ \A el \in Targets : Examined(el) => Class(el) # "contact") =>
        /\ "active" \notin hotspot
        /\ "approaching" \notin glow

\* A poll found one region approaching and none in contact: the glow it lit
\* for that region is off again.
C18_Witness ==
    /\ UnpausedPoll
    /\ \A el \in Targets : Examined(el)
    /\ Class("title") = "approaching"
    /\ Class("label") = "idle"
    /\ glow = {}
    /\ hotspot = {}

\* The region qualifies for contact or approach at the current scan position.
Qualifies(el) ==
    /\ CentreDistance2(el) < 2 * ApproachDistance
    /\ CentreDistance2(el) <= Max(Bottom(rects[el]) - rects[el].top, MinHeight)

\* C19 as stated: after an unpaused poll tick, however the geometry and the
\* scroll position changed since the tick before, a region that does not
\* qualify for contact or approach at the current scan position carries
\* neither marker.
C19_Original ==
    UnpausedPoll =>
        \A el \in Targets :
            ~Qualifies(el) => classList[el] \cap {"beam-contact", "beam-approaching"} = {}

Texts == {"title", "label"}

AbsentConfig ==
    [present |-> FALSE, timings |-> [preservation |-> 0, flicker |-> 0]]

\* The broadcaster without the configuration table.  No flicker interval is
\* ever armed, since startFlickerCycle() throws before its setInterval.
NextNoConfig ==
    \/ Start
    \/ Reset
    \/ \E iv \in intervals : UpdateTick(iv)
    \/ ForceFlicker
    \/ Pause
    \/ Resume
    \/ Destroy
    \/ \E d \in Steps : Advance(d)

SpecNoConfig == Load(AbsentConfig) /\ [][NextNoConfig]_vars

\* C21 as stated: with TANK_CONFIG absent, no exception propagates out of
\* start() or out of an update tick.
C21_Original == (lastOp \in {"start", "update"}) => ~escaped

\* C22 as stated: no automatic flicker begins before the flicker interval has
\* passed since reset(); in particular the flicker timer's callback, running
\* next after reset() with no time passed, does not begin a flicker.
C22_Original ==
    [][(lastOp = "reset" /\ lastOp' = "flickerTimer") => ~isFlickering']_vars

\* C24: without the debug override setStage, isFlickering is true exactly
\* when stage is 'flicker', after every handler and timer callback.
C24_FlagMatchesStage == isFlickering <=> (stage = "flicker")

\* A flicker has run for half its duration and an update tick has reported it.
C24_Witness ==
    /\ lastOp = "update"
    /\ isFlickering
    /\ stage = "flicker"
    /\ progress = <<1, 2>>

\* C25 as stated: at most one update interval and at most one flicker interval
\* are live at any time, and none is live after pause() or destroy().
C25_Original ==
    /\ Cardinality({iv \in intervals : iv.kind = "update"}) <= 1
    /\ Cardinality({iv \in intervals : iv.kind = "flicker"}) <= 1
    /\ (lastOp \in {"pause", "destroy"} => intervals = {})

\* C28: after an unpaused poll tick, a region the tick examined carries
\* beam-approaching without beam-contact only when its distance to the scan
\* position is exactly max(20, height / 2) and that value is below 60; at
\* every other distance it is in contact or carries no marker.
C28_ApproachingOnlyAtTheEdge ==
    UnpausedPoll =>
        \A el \in Targets :
            Examined(el) =>
                LET edge2 == Max(2 * ContactDistance, rects[el].height)
                IN  /\ Class(el) = "approaching" =>
                           (CentreDistance2(el) = edge2 /\ edge2 < 2 * ApproachDistance)
                    /\ CentreDistance2(el) # edge2 =>
                           (Class(el) = "contact" \/ classList[el] = {})

\* A poll has left a region of height 100 approaching at distance 50, a thin
\* region at distance 30 without a marker and nothing lit.
C28_Witness ==
    /\ UnpausedPoll
    /\ scanY = 300
    /\ rects["title"] = Rect(200, 100)
    /\ classList["title"] = {"beam-approaching"}
    /\ rects["label"] = Rect(265, 10)
    /\ classList["label"] = {}

\* C29: in every state of the beam poll loop, a beam target that carries
\* beam-contact carries beam-approaching as well.
C29_ContactImpliesApproaching ==
    \A el \in Targets :
        "beam-contact" \in classList[el] => "beam-approaching" \in classList[el]

\* The poll is paused and the region that was in contact has moved away: it
\* still carries both markers.
C29_Witness ==
    /\ isPaused
    /\ lastOp = "beamPoll"
    /\ classList["title"] = {"beam-approaching", "beam-contact"}
    /\ CentreDistance2("title") >= 2 * ApproachDistance

\* ------------------------------------------------- two texts, one key

\* The two popup texts whose cooldown keys are equal.
SharedKey == {"label", "label2"}

\* The audio poll over a page where the two popup texts move in and out of the
\* beam, together or one after the other; the header text and the toggle stay
\* away from it.
NextSharedKey ==
    \/ \E d \in PollDelays : AudioWait(d)
    \/ AudioPoll
    \/ \E el \in SharedKey : \E rect \in AudioRects : Move(el, rect)

SpecSharedKey == Init /\ [][NextSharedKey]_vars

BothRects == {Rect(600, 10), Rect(290, 10), Rect(260, 40)}

\* The beam poll and the audio poll over one page, the header text moving.
NextBothPolls ==
    \/ BeamPoll
    \/ \E d \in PollDelays : AudioWait(d)
    \/ AudioPoll
    \/ \E rect \in BothRects : Move("title", rect)

SpecBothPolls == Init /\ [][NextBothPolls]_vars

\* C27 as stated: when the audio poll has fired a discrete trigger for a beam
\* target, the beam poll's callback at the same scan position and geometry
\* marks that target as in contact.
C27_Original ==
    lastOp = "audioPoll" =>
        \A el \in Targets :
            (\E t \in triggers : t[2] = el) =>
                "beam-contact" \in
                    collisionCheck(Page, scanY, rects, isMobile).classList[el]

\* ------------------------------------------------- the audio subscriber

\* The callback integrateTankAudio subscribes: the functions of the audio
\* object it calls for one notification (stage, progress).
audioSubscriber(st, pr) ==
    {"syncToDecayStage", "syncDecayVisuals"}
        \cup (IF st = "flicker" /\ Less(pr, <<1, 10>>)
              THEN {"triggerFlickerSurge"}
              ELSE {})

\* The notification pass that has just run made the audio subscriber call
\* audio.triggerFlickerSurge().
SurgeInvoked ==
    /\ pass.ran
    /\ \E i \in 1..Len(pass.calls) :
           /\ pass.calls[i].callback = "audio"
           /\ "triggerFlickerSurge" \in
                  audioSubscriber(pass.calls[i].stage, pass.calls[i].progress)

\* integrateTankAudio runs at load and subscribes its callback.
SubscribeAudio ==
    /\ lastOp = "load"
    /\ Subscribe("audio")

\* start(), once the audio is hooked.
StartHooked ==
    /\ lastOp = "subscribe"
    /\ Start

\* The running broadcaster with the audio subscribed before start(): its two
\* timers fire and the user interacts; every flicker is an automatic one.
NextSurge ==
    \/ SubscribeAudio
    \/ StartHooked
    \/ \E iv \in intervals : UpdateTick(iv)
    \/ \E iv \in intervals : FlickerTick(iv)
    \/ \E d \in Steps : Advance(d)
    \/ Reset

SpecSurge == Init /\ [][NextSurge]_vars

\* C26 as stated: the flicker surge is invoked once per flicker, by the
\* notification of its entry; no update tick invokes it again.
C26_Original == (lastOp = "update") => ~SurgeInvoked

\* ----------------------------------------------------- registry lookups

\* The largest id looked up; the registry has 12 slots, ids 1..12.
MaxQueryId == 13

QueryIds == 0..MaxQueryId

\* SPECIMENS.getPopupContent(id) is called
GetPopupContent(id) ==
    /\ popup' = [called |-> TRUE, id |-> id, result |-> getPopupContent(registry, id)]
    /\ lastOp' = "getPopupContent"
    /\ UNCHANGED <<registry, membrane, decayVars, pollVars>>

\* SPECIMENS.getMembraneData(id) is called
GetMembraneData(id) ==
    /\ membrane' = [called |-> TRUE, id |-> id,
                    result |-> getMembraneData(registry, id)]
    /\ lastOp' = "getMembraneData"
    /\ UNCHANGED <<registry, popup, decayVars, pollVars>>

\* The page has loaded one of the shipped registries.
InitSpecimens ==
    /\ DecayAtLoad(Config)
    /\ PageAtLoad
    /\ \E reg \in ShippedRegistries : RegistryAtLoad(reg)

NextSpecimens ==
    \/ \E id \in QueryIds : GetPopupContent(id)
    \/ \E id \in QueryIds : GetMembraneData(id)

SpecSpecimens == InitSpecimens /\ [][NextSpecimens]_vars

\* The registry has an entry with this id whose status is 'contained'.
ContainedEntry(id) ==
    \E i \in 1..Len(registry) :
        registry[i].id = id /\ registry[i].status = "contained"

\* C30: getPopupContent(id) is non-null exactly when the registry has an
\* entry with that id whose status is 'contained'; getMembraneData(id) is
\* non-null with clickable = true exactly then as well; so for one id the
\* first is non-null if and only if the second is non-null and clickable.
C30_PopupIffClickable ==
    /\ popup.called => (popup.result # {} <=> ContainedEntry(popup.id))
    /\ membrane.called =>
           ((\E m \in membrane.result : m.clickable) <=> ContainedEntry(membrane.id))
    /\ (popup.called /\ membrane.called /\ popup.id = membrane.id) =>
           (popup.result # {} <=> \E m \in membrane.result : m.clickable)

\* Both lookups have been made for id 3 of the v3.1 registry, a vacant slot:
\* the membrane data is there and not clickable, and there is no popup.
C30_Witness ==
    /\ registry = Registry31
    /\ popup.called /\ popup.id = 3
    /\ membrane.called /\ membrane.id = 3
    /\ popup.result = {}
    /\ \E m \in membrane.result : m.isEmpty /\ ~m.clickable

====
